---- MODULE Spec2Model ----
(***************************************************************************)
(* Model of the bulk-deletion scripts of demos-cloud-azure:                *)
(*   scripts/azure-resource-cleanup.py, scripts/cleanup-resources.py       *)
(*   (resource groups of Azure subscriptions, through the Azure SDK), and  *)
(*   scripts/delete-git-repos.py, scripts/delete-library-items.py,         *)
(*   scripts/delete-pipelines.py (Azure DevOps, through the az CLI).       *)
(*                                                                         *)
(* Text (operator input, names, ids, phrases) is a sequence of one-        *)
(* character strings, so that comparison, concatenation and lower() are    *)
(* computed as Python computes them.  An optional value (Python None or a  *)
(* value) is a sequence of length 0 or 1.                                  *)
(***************************************************************************)
EXTENDS Integers, Sequences, FiniteSets, TLC

VARIABLES
    script,            \* which of the five programs is running
    args,              \* argparse namespace of the run
    pc,                \* position of the single thread of control
    exit_code,         \* <<>> while running, <<n>> once the process has exited
    confirmation,      \* the most recent text read by input(), <<>> before any
    azure,             \* provider: subscription id -> set of resource group names
    azure_subs,        \* provider: what subscriptions.list() returns
    subscriptions,     \* main(): the (filtered) subscription list
    sub_idx,           \* main(): position of the subscription loop
    resource_groups,   \* delete_resource_groups(): the listed groups
    grp_idx,           \* delete_resource_groups(): position of the group loop
    delete_operation,  \* <<>> or <<poller>>: the long-running delete in flight
    status,            \* cleanup-resources: the last status printed
    status_log,        \* the statuses printed for the operation in flight
    devops,            \* provider: what the az CLI lists for the project
    listed,            \* repositories / variable_groups / pipelines
    to_process,        \* repos_to_delete / groups_to_delete / pipelines_to_process
    excluded,          \* excluded_repos / excluded_groups / excluded_pipelines
    idx,               \* position of the delete loop of the delete-* scripts
    success_count,     \* success_count / pipeline_success_count
    runs,              \* delete-pipelines: the runs listed for the pipeline
    run_idx,           \* delete-pipelines: position of the run loop
    run_success_count, \* delete-pipelines
    total_runs,        \* delete-pipelines
    run_calls,         \* the cancel calls made for the pipeline in progress
    run_lines,         \* the per-run lines printed for the pipeline in progress
    calls,             \* every delete call of the run, in order
    stdout,            \* the per-item outcome lines printed by the run, in order
    slept,             \* the last step of the program called time.sleep
    unpaced            \* a delete or cancel call was made and no time.sleep since

ctlVars == <<script, args, pc, exit_code, confirmation>>
rgProvider == <<azure, azure_subs>>
rgVars == <<subscriptions, sub_idx, resource_groups, grp_idx>>
opVars == <<delete_operation, status, status_log>>
doVars == <<listed, to_process, excluded, idx, success_count>>
runVars == <<runs, run_idx, run_success_count, total_runs, run_calls, run_lines>>
logVars == <<calls, stdout>>
paceVars == <<slept, unpaced>>
vars == <<ctlVars, rgProvider, rgVars, opVars, devops, doVars, runVars, logVars,
          paceVars>>

--------------------------------------------------------------------------
(* Text *)

UpperAlpha ==
    <<"A","B","C","D","E","F","G","H","I","J","K","L","M",
      "N","O","P","Q","R","S","T","U","V","W","X","Y","Z">>
LowerAlpha ==
    <<"a","b","c","d","e","f","g","h","i","j","k","l","m",
      "n","o","p","q","r","s","t","u","v","w","x","y","z">>

LowerChar(c) ==
    IF \E i \in 1..Len(UpperAlpha) : UpperAlpha[i] = c
    THEN LowerAlpha[CHOOSE i \in 1..Len(UpperAlpha) : UpperAlpha[i] = c]
    ELSE c

\* str.lower()
Lower(s) == [i \in 1..Len(s) |-> LowerChar(s[i])]

Range(s) == {s[i] : i \in 1..Len(s)}

\* Python: x in lst  (a list; element equality)
InList(x, lst) == \E i \in 1..Len(lst) : lst[i] = x

None == <<>>
Some(x) == <<x>>
IsNone(o) == o = <<>>
Get(o) == o[1]

--------------------------------------------------------------------------
(* Domains of the inputs *)

AzureCleanup == "azure-resource-cleanup"
CleanupResources == "cleanup-resources"
DeleteGitRepos == "delete-git-repos"
DeleteLibraryItems == "delete-library-items"
DeletePipelines == "delete-pipelines"

RGScripts == {AzureCleanup, CleanupResources}
DevOpsScripts == {DeleteGitRepos, DeleteLibraryItems, DeletePipelines}
Scripts == RGScripts \cup DevOpsScripts

\* "I UNDERSTAND THE CONSEQUENCES"
PhraseAzure ==
    <<"I"," ","U","N","D","E","R","S","T","A","N","D"," ","T","H","E"," ",
      "C","O","N","S","E","Q","U","E","N","C","E","S">>
\* "DELETE ALL RESOURCES"
PhraseCleanup ==
    <<"D","E","L","E","T","E"," ","A","L","L"," ",
      "R","E","S","O","U","R","C","E","S">>
\* "y"
PhraseYes == <<"y">>
\* "delete "
DeletePrefix == <<"d","e","l","e","t","e"," ">>
\* "process "
ProcessPrefix == <<"p","r","o","c","e","s","s"," ">>

S1 == <<"s","1">>
S2 == <<"s","2">>
SubIds == {S1, S2}
\* what subscriptions.list() may return
SubLists == {<<>>, <<S1>>, <<S1, S2>>}

GA == <<"a">>
GB == <<"b">>
GroupNames == {GA, GB}
\* what resource_groups.list() may return for one subscription: group names
\* are unique within a subscription
GroupLists == {<<>>, <<GA>>, <<GB>>, <<GA, GB>>}

\* what the operator may type at a prompt
Inputs ==
    {PhraseAzure, PhraseCleanup, PhraseYes, <<"Y">>, <<>>, <<"n">>}
    \cup {ProcessPrefix \o s : s \in SubIds}
    \cup {DeletePrefix \o g : g \in GroupNames}

\* the bounds of the Azure DevOps side
MaxItems == 3
MaxPipelines == 2
MaxRuns == 1
MaxExclude == 1

Digits == <<"1","2","3","4","5","6","7","8","9">>
\* the id the provider gives the i-th resource of a listing
IdOf(i) == <<Digits[i]>>
\* the id of the i-th run of pipeline `pipeline_id`
RunIdOf(pipeline_id, i) == pipeline_id \o <<"r", Digits[i]>>

NA == <<"A">>
NB == <<"B">>
NC == <<"C">>
NAB == <<"A","B">>
\* names of repositories, variable groups and pipelines: several resources
\* may carry one name
ItemNames == {NA, NB, NC}
\* names given to --exclude; "AB" names no resource
ExcludeNames == {NB, NAB}

SeqsUpTo(S, n) == UNION {[1..k -> S] : k \in 0..n}

\* names of the pipelines
PipelineNames == {NA, NB}

\* what the az CLI may list for a project
Listings(names_of, n) ==
    {[i \in 1..Len(names) |-> [id |-> IdOf(i), name |-> names[i]]] :
        names \in SeqsUpTo(names_of, n)}

\* --exclude takes one name or more (nargs="+"), and is None when absent
ExcludeArgs ==
    {None} \cup {Some(l) : l \in SeqsUpTo(ExcludeNames, MaxExclude) \ {<<>>}}

\* the states `az pipelines runs list` may report for a run; a run may
\* carry no state at all
RunStates ==
    {Some("inProgress"), Some("notStarted"), Some("queued"),
     Some("completed"), Some("canceled"), Some("failed"), None}

\* delete-pipelines runs with no --exclude or with the name of a pipeline;
\* its filter is the one of the other two delete-* scripts, which run on
\* all of ExcludeArgs
PipelineExcludeArgs == {None, Some(<<NB>>)}

NoArgs ==
    [dry_run |-> FALSE, force |-> FALSE, skip_confirmation |-> FALSE,
     confirm |-> FALSE, subscription |-> None, exclude |-> None,
     runs_only |-> FALSE]

\* the command lines of a script
ArgsOf(sc) ==
    CASE sc = AzureCleanup ->
           {[NoArgs EXCEPT !.dry_run = d, !.force = f, !.subscription = s] :
               d \in BOOLEAN, f \in BOOLEAN, s \in {None, Some(S2)}}
      [] sc = CleanupResources ->
           {[NoArgs EXCEPT !.dry_run = d, !.skip_confirmation = f,
                           !.subscription = s] :
               d \in BOOLEAN, f \in BOOLEAN, s \in {None, Some(S2)}}
      [] sc = DeletePipelines ->
           {[NoArgs EXCEPT !.confirm = c, !.exclude = e, !.runs_only = r] :
               c \in BOOLEAN, e \in PipelineExcludeArgs, r \in BOOLEAN}
      [] OTHER ->
           {[NoArgs EXCEPT !.confirm = c, !.exclude = e] :
               c \in BOOLEAN, e \in ExcludeArgs}

--------------------------------------------------------------------------
(* The process *)

\* what the process exits with when main() ends on its `except Exception`
AbortExit ==
    IF script = CleanupResources THEN 1 ELSE 0

Running == pc # "exited"

Exit(code) ==
    /\ pc' = "exited"
    /\ exit_code' = Some(code)

Say(line) == stdout' = Append(stdout, line)

\* the step makes no delete or cancel call and does not sleep
NoSleep == slept' = FALSE /\ UNCHANGED unpaced

\* the step makes a delete or cancel call and goes on without a sleep
CallNoSleep == slept' = FALSE /\ unpaced' = TRUE

\* the step ends with time.sleep, after its delete or cancel call if any
Sleep == slept' = TRUE /\ unpaced' = FALSE

\* an exception that reaches main()'s `except Exception`
Abort ==
    /\ Exit(AbortExit)
    /\ Say(<<"An error occurred", <<>>, <<>>>>)

--------------------------------------------------------------------------
(* azure-resource-cleanup.py and cleanup-resources.py *)

\* the flag that switches the confirmations off
SkipFlag ==
    CASE script = AzureCleanup -> FALSE
      [] script = CleanupResources -> args.skip_confirmation
      [] OTHER -> args.confirm

\* mutant: the confirmations are asked in a dry run too
GateRequiredInDryRun == ~SkipFlag

\* `if not args.dry_run [and not args.skip_confirmation]`
GateRequired == ~args.dry_run /\ ~SkipFlag

\* a sequence begins another
IsPrefix(a, b) == Len(a) <= Len(b) /\ SubSeq(b, 1, Len(a)) = a

\* mutant: the phrase is tested with startswith, so that a shorter input,
\* the empty one included, passes
GlobalConfirmedStartsWith(input) ==
    CASE script = AzureCleanup -> IsPrefix(input, PhraseAzure)
      [] script = CleanupResources -> IsPrefix(input, PhraseCleanup)
      [] OTHER -> IsPrefix(Lower(input), PhraseYes)

\* `confirmation != "<phrase>"`, negated
GlobalConfirmed(input) ==
    CASE script = AzureCleanup -> input = PhraseAzure
      [] script = CleanupResources -> input = PhraseCleanup
      [] OTHER -> Lower(input) = PhraseYes

\* mutant: any 'process <id>' is taken for the consent to the subscription
\* at hand
SubConfirmedAnySub(input, sub_id) == IsPrefix(ProcessPrefix, input)

\* `sub_confirm != f"process {sub_id}"`, negated
SubConfirmed(input, sub_id) == input = ProcessPrefix \o sub_id

\* mutant: any 'delete <name>' is taken for the consent to the group at hand
ItemConfirmedAnyGroup(input, group_name) == IsPrefix(DeletePrefix, input)

\* `confirmation != f"delete {group_name}"`, negated
ItemConfirmed(input, group_name) == input = DeletePrefix \o group_name

CurSub == subscriptions[sub_idx]
CurGroup == resource_groups[grp_idx]

\* main(): the global confirmation check
GlobalGate ==
    /\ NoSleep
    /\ script \in RGScripts
    /\ pc = "start"
    /\ IF GateRequired
       THEN \E input \in Inputs :
              /\ confirmation' = Some(input)
              /\ IF GlobalConfirmed(input)
                 THEN pc' = "setup" /\ UNCHANGED exit_code
                 ELSE Exit(0)
       ELSE pc' = "setup" /\ UNCHANGED <<confirmation, exit_code>>
    /\ UNCHANGED <<script, args, rgProvider, rgVars, opVars, devops, doVars,
                   runVars, logVars>>

\* `[s for s in subscriptions if s.subscription_id == args.subscription]`
RECURSIVE FilterSubscriptions(_, _)
FilterSubscriptions(subs, wanted) ==
    IF subs = <<>> THEN <<>>
    ELSE (IF Head(subs) = wanted THEN <<Head(subs)>> ELSE <<>>)
         \o FilterSubscriptions(Tail(subs), wanted)

\* main(): credential, get_subscriptions, the --subscription filter
GetSubscriptions ==
    /\ NoSleep
    /\ script \in RGScripts
    /\ pc = "setup"
    /\ \/ \* the credential or the listing raises
          /\ Abort
          /\ UNCHANGED rgVars
       \/ LET found == azure_subs
              kept == IF IsNone(args.subscription) THEN found
                      ELSE FilterSubscriptions(found, Get(args.subscription))
          IN IF found = <<>> \/ kept = <<>>
             THEN /\ Exit(0)
                  /\ UNCHANGED <<rgVars, stdout>>
             ELSE /\ subscriptions' = kept
                  /\ sub_idx' = 1
                  /\ pc' = "sub_loop"
                  /\ UNCHANGED <<exit_code, resource_groups, grp_idx, stdout>>
    /\ UNCHANGED <<script, args, confirmation, rgProvider, opVars, devops,
                   doVars, runVars, calls>>

\* main(): one iteration of `for subscription in subscriptions`, up to the
\* call of delete_resource_groups, and the end of the loop
SubscriptionGate ==
    /\ NoSleep
    /\ script \in RGScripts
    /\ pc = "sub_loop"
    /\ IF sub_idx > Len(subscriptions)
       THEN /\ Exit(0)
            /\ Say(<<"Resource cleanup complete!", <<>>, <<>>>>)
            /\ UNCHANGED <<confirmation, sub_idx>>
       ELSE /\ UNCHANGED exit_code
            /\ IF GateRequired
               THEN \E input \in Inputs :
                      /\ confirmation' = Some(input)
                      /\ IF SubConfirmed(input, CurSub)
                         THEN /\ pc' = "list_groups"
                              /\ UNCHANGED <<sub_idx, stdout>>
                         ELSE \* `print(f"Skipping subscription {sub_id}");
                              \* continue`
                              /\ Say(<<"Skipping subscription", CurSub, <<>>>>)
                              /\ pc' = "sub_loop"
                              /\ sub_idx' = sub_idx + 1
               ELSE /\ pc' = "list_groups"
                    /\ UNCHANGED <<confirmation, sub_idx, stdout>>
    /\ UNCHANGED <<script, args, rgProvider, subscriptions, resource_groups,
                   grp_idx, opVars, devops, doVars, runVars, calls>>

\* delete_resource_groups(): the client and the listing, outside any try
ListResourceGroups ==
    /\ NoSleep
    /\ script \in RGScripts
    /\ pc = "list_groups"
    /\ \/ /\ Abort
          /\ UNCHANGED <<resource_groups, grp_idx>>
       \/ /\ resource_groups' = azure[CurSub]
          /\ grp_idx' = 1
          /\ pc' = "group_loop"
          /\ UNCHANGED <<exit_code, stdout>>
    /\ UNCHANGED <<script, args, confirmation, rgProvider, subscriptions,
                   sub_idx, opVars, devops, doVars, runVars, calls>>

\* whether delete_resource_groups() asks for each group
ItemGateRequired ==
    IF script = CleanupResources THEN ~args.skip_confirmation ELSE TRUE

\* the loop moves to the next group
NextGroup ==
    /\ grp_idx' = grp_idx + 1
    /\ pc' = "group_loop"

\* mutant: the dry-run branch lacks its `continue` and falls through to
\* the deletion
WouldDeleteNoContinue ==
    /\ Say(<<"[DRY RUN] Would delete", CurSub, CurGroup>>)
    /\ pc' = "begin_delete"
    /\ UNCHANGED grp_idx

\* `if dry_run: print(f"[DRY RUN] Would delete ..."); continue`
WouldDelete ==
    /\ Say(<<"[DRY RUN] Would delete", CurSub, CurGroup>>)
    /\ NextGroup

\* mutant: the refusal leaves the loop (`break` in place of `continue`)
OnRefusalBreaks ==
    /\ Say(<<"Skipping deletion", CurSub, CurGroup>>)
    /\ grp_idx' = Len(resource_groups) + 1
    /\ pc' = "group_loop"

\* `print(f"Skipping deletion of {group_name}"); continue`
OnRefusal ==
    /\ Say(<<"Skipping deletion", CurSub, CurGroup>>)
    /\ NextGroup

\* delete_resource_groups(): one iteration of `for group in resource_groups`
\* up to the try, and the return at the end of the loop
ForGroup ==
    /\ NoSleep
    /\ script \in RGScripts
    /\ pc = "group_loop"
    /\ IF grp_idx > Len(resource_groups)
       THEN /\ sub_idx' = sub_idx + 1
            /\ pc' = "sub_loop"
            /\ UNCHANGED <<confirmation, grp_idx, stdout>>
       ELSE /\ UNCHANGED sub_idx
            /\ IF args.dry_run
               THEN /\ WouldDelete
                    /\ UNCHANGED confirmation
               ELSE IF ItemGateRequired
               THEN \E input \in Inputs :
                      /\ confirmation' = Some(input)
                      /\ IF ItemConfirmed(input, CurGroup)
                         THEN /\ pc' = "begin_delete"
                              /\ UNCHANGED <<grp_idx, stdout>>
                         ELSE OnRefusal
               ELSE /\ pc' = "begin_delete"
                    /\ UNCHANGED <<confirmation, grp_idx, stdout>>
    /\ UNCHANGED <<script, args, exit_code, rgProvider, subscriptions,
                   resource_groups, opVars, devops, doVars, runVars, calls>>

\* the states of a long-running delete, as status() reports them
TerminalStatuses == {"succeeded", "failed", "canceled"}

\* LROPoller.done(): the polling has ended, with a terminal status or with
\* the exception that ended it
Done(op) == op.status \in TerminalStatuses \/ op.exception # ""

\* the group `name` of subscription `sub` is gone from the provider
RECURSIVE Without(_, _)
Without(lst, name) ==
    IF lst = <<>> THEN <<>>
    ELSE (IF Head(lst) = name THEN <<>> ELSE <<Head(lst)>>)
         \o Without(Tail(lst), name)

\* the provider's side of a long-running delete: it advances on its own,
\* ends succeeded (the group is gone), failed or canceled (the poller keeps
\* an HttpResponseError), or its polling dies on a transport error
OperationProgress ==
    /\ UNCHANGED paceVars
    /\ script \in RGScripts
    /\ ~IsNone(delete_operation)
    /\ ~Done(Get(delete_operation))
    /\ LET op == Get(delete_operation)
       IN \/ /\ op.status = "queued"
             /\ delete_operation' = Some([op EXCEPT !.status = "running"])
             /\ UNCHANGED azure
          \/ /\ op.status = "running"
             /\ delete_operation' = Some([op EXCEPT !.status = "succeeded"])
             /\ azure' = [azure EXCEPT ![op.sub] = Without(@, op.name)]
          \/ \E t \in {"failed", "canceled"} :
                /\ delete_operation' =
                     Some([op EXCEPT !.status = t,
                                     !.exception = "HttpResponseError"])
                /\ UNCHANGED azure
          \/ /\ delete_operation' =
                  Some([op EXCEPT !.exception = "ServiceRequestError"])
             /\ UNCHANGED azure
    /\ UNCHANGED <<ctlVars, azure_subs, rgVars, status, status_log, devops,
                   doVars, runVars, logVars>>

\* mutant: the try encloses the loop, so that the handler ends it
OnHttpResponseErrorEndsLoop ==
    /\ Say(<<"Error deleting", CurSub, CurGroup>>)
    /\ grp_idx' = Len(resource_groups) + 1
    /\ pc' = "group_loop"
    /\ UNCHANGED exit_code

\* mutant: the handler tries the delete of the same group again
OnHttpResponseErrorRetries ==
    /\ Say(<<"Error deleting", CurSub, CurGroup>>)
    /\ pc' = "begin_delete"
    /\ UNCHANGED <<grp_idx, exit_code>>

\* `except HttpResponseError as e: print(f"Error deleting ...")`, and the
\* loop goes on
OnHttpResponseError ==
    /\ Say(<<"Error deleting", CurSub, CurGroup>>)
    /\ NextGroup
    /\ UNCHANGED exit_code

\* `print(f"Successfully deleted resource group: {group_name}")`
ReportSuccess ==
    /\ Say(<<"Successfully deleted", CurSub, CurGroup>>)
    /\ NextGroup
    /\ UNCHANGED exit_code

\* what begin_delete may do: return the poller, raise HttpResponseError, or
\* raise another exception (a transport error is no HttpResponseError)
BeginDeleteOutcomes == {"poller", "HttpResponseError", "ServiceRequestError"}

\* delete_resource_groups(): `resource_groups.begin_delete(group_name)`
BeginDelete ==
    /\ CallNoSleep
    /\ script \in RGScripts
    /\ pc = "begin_delete"
    /\ calls' = Append(calls, <<"begin_delete", CurSub, CurGroup>>)
    /\ \E outcome \in BeginDeleteOutcomes :
         CASE outcome = "poller" ->
                /\ delete_operation' =
                     Some([sub |-> CurSub, name |-> CurGroup,
                           status |-> "queued", exception |-> ""])
                /\ status' = ""
                /\ status_log' = <<>>
                /\ pc' = IF script = AzureCleanup THEN "wait" ELSE "poll_done"
                /\ UNCHANGED <<exit_code, grp_idx, stdout>>
           [] outcome = "HttpResponseError" ->
                /\ OnHttpResponseError
                /\ UNCHANGED opVars
           [] OTHER ->
                /\ Abort
                /\ UNCHANGED <<grp_idx, opVars>>
    /\ UNCHANGED <<script, args, confirmation, rgProvider, subscriptions,
                   sub_idx, resource_groups, devops, doVars, runVars>>

\* azure-resource-cleanup: `delete_operation.wait()` returns when the
\* polling has ended and raises the exception the poller kept
Wait ==
    /\ NoSleep
    /\ script = AzureCleanup
    /\ pc = "wait"
    /\ Done(Get(delete_operation))
    /\ CASE Get(delete_operation).exception = "" -> ReportSuccess
         [] Get(delete_operation).exception = "HttpResponseError" ->
              OnHttpResponseError
         [] OTHER -> Abort /\ UNCHANGED grp_idx
    /\ delete_operation' = None
    /\ UNCHANGED <<script, args, confirmation, rgProvider, subscriptions,
                   sub_idx, resource_groups, status, status_log, devops,
                   doVars, runVars, calls>>

\* cleanup-resources: `while not delete_operation.done():` and, once it is
\* done, the print after the loop; done() raises nothing
PollDone ==
    /\ NoSleep
    /\ script = CleanupResources
    /\ pc = "poll_done"
    /\ IF Done(Get(delete_operation))
       THEN /\ ReportSuccess
            /\ delete_operation' = None
       ELSE /\ pc' = "poll_status"
            /\ UNCHANGED <<exit_code, grp_idx, stdout, delete_operation>>
    /\ UNCHANGED <<script, args, confirmation, rgProvider, subscriptions,
                   sub_idx, resource_groups, status, status_log, devops,
                   doVars, runVars, calls>>

\* cleanup-resources: the body of the polling loop: status(), the print of
\* a status that changed, time.sleep(5)
PollStatus ==
    /\ Sleep
    /\ script = CleanupResources
    /\ pc = "poll_status"
    /\ LET new_status == Get(delete_operation).status
       IN IF new_status # status
          THEN /\ status' = new_status
               /\ status_log' = Append(status_log, new_status)
          ELSE UNCHANGED <<status, status_log>>
    /\ pc' = "poll_done"
    /\ UNCHANGED <<script, args, exit_code, confirmation, rgProvider, rgVars,
                   delete_operation, devops, doVars, runVars, logVars>>

--------------------------------------------------------------------------
(* delete-git-repos.py, delete-library-items.py and delete-pipelines.py *)

\* ensure_devops_extension(): sys.exit(1) when the extension can neither
\* be found nor installed
EnsureDevopsExtension ==
    /\ NoSleep
    /\ script \in DevOpsScripts
    /\ pc = "start"
    /\ \/ pc' = "configure" /\ UNCHANGED exit_code
       \/ Exit(1)
    /\ UNCHANGED <<script, args, confirmation, rgProvider, rgVars, opVars,
                   devops, doVars, runVars, logVars>>

\* configure_devops_defaults(): sys.exit(1) when az fails
ConfigureDevopsDefaults ==
    /\ NoSleep
    /\ script \in DevOpsScripts
    /\ pc = "configure"
    /\ \/ pc' = "list" /\ UNCHANGED exit_code
       \/ Exit(1)
    /\ UNCHANGED <<script, args, confirmation, rgProvider, rgVars, opVars,
                   devops, doVars, runVars, logVars>>

\* `exclude_list = args.exclude or []`
ExcludeList == IF IsNone(args.exclude) THEN <<>> ELSE Get(args.exclude)

\* a sequence occurs in another, contiguously
IsInfix(a, b) ==
    \E k \in 0..(Len(b) - Len(a)) : SubSeq(b, k + 1, k + Len(a)) = a

\* mutant: the name is looked for inside each entry (`in` on a string)
\* instead of being compared with it
IsExcludedSubstring(name, exclude_list) ==
    \E i \in 1..Len(exclude_list) : IsInfix(name, exclude_list[i])

\* `repo["name"] in exclude_list`
IsExcluded(name, exclude_list) == InList(name, exclude_list)

\* mutant: --exclude is parsed and never applied
ToProcessUnfiltered(resources, exclude_list) == resources

\* `[repo for repo in repositories if repo["name"] not in exclude_list]`
RECURSIVE ToProcess(_, _)
ToProcess(resources, exclude_list) ==
    IF resources = <<>> THEN <<>>
    ELSE (IF ~IsExcluded(Head(resources).name, exclude_list)
          THEN <<Head(resources)>> ELSE <<>>)
         \o ToProcess(Tail(resources), exclude_list)

\* `[repo for repo in repositories if repo["name"] in exclude_list]`
RECURSIVE Excluded(_, _)
Excluded(resources, exclude_list) ==
    IF resources = <<>> THEN <<>>
    ELSE (IF IsExcluded(Head(resources).name, exclude_list)
          THEN <<Head(resources)>> ELSE <<>>)
         \o Excluded(Tail(resources), exclude_list)

\* mutant: the two early returns on an empty list are missing
EnumerateNoEarlyReturn ==
    /\ NoSleep
    /\ script \in DevOpsScripts
    /\ pc = "list"
    /\ \/ /\ Exit(1)
          /\ UNCHANGED <<listed, to_process, excluded>>
       \/ /\ listed' = devops
          /\ to_process' = ToProcess(devops, ExcludeList)
          /\ excluded' = Excluded(devops, ExcludeList)
          /\ pc' = "confirm"
          /\ UNCHANGED exit_code
    /\ UNCHANGED <<script, args, confirmation, rgProvider, rgVars, opVars,
                   devops, idx, success_count, runVars, logVars>>

\* main(): the listing (sys.exit(1) when az fails, a traceback when its
\* output is no JSON), the exclusion filter and the two early returns
Enumerate ==
    /\ NoSleep
    /\ script \in DevOpsScripts
    /\ pc = "list"
    /\ \/ /\ Exit(1)
          /\ UNCHANGED <<listed, to_process, excluded>>
       \/ /\ listed' = devops
          /\ to_process' = ToProcess(devops, ExcludeList)
          /\ excluded' = Excluded(devops, ExcludeList)
          /\ IF devops = <<>> \/ to_process' = <<>>
             THEN Exit(0)
             ELSE pc' = "confirm" /\ UNCHANGED exit_code
    /\ UNCHANGED <<script, args, confirmation, rgProvider, rgVars, opVars,
                   devops, idx, success_count, runVars, logVars>>

\* main(): `if not args.confirm:` and the prompt
ConfirmGate ==
    /\ NoSleep
    /\ script \in DevOpsScripts
    /\ pc = "confirm"
    /\ IF ~args.confirm
       THEN \E input \in Inputs :
              /\ confirmation' = Some(input)
              /\ IF GlobalConfirmed(input)
                 THEN /\ pc' = "delete_loop"
                      /\ idx' = 1
                      /\ UNCHANGED <<exit_code, stdout>>
                 ELSE /\ Exit(0)
                      /\ Say(<<"Operation cancelled.", <<>>, <<>>>>)
                      /\ UNCHANGED idx
       ELSE /\ pc' = "delete_loop"
            /\ idx' = 1
            /\ UNCHANGED <<confirmation, exit_code, stdout>>
    /\ UNCHANGED <<script, args, rgProvider, rgVars, opVars, devops, listed,
                   to_process, excluded, success_count, runVars, calls>>

\* what one az call that deletes or cancels may do: return code 0, another
\* return code, or subprocess.run raises
AzOutcomes == {"rc0", "rc_nonzero", "exception"}

\* delete_repository() and its like: True for return code 0, False for
\* another one and for any exception
AzSucceeded(outcome) == outcome = "rc0"

\* the name of the function that deletes one resource
DeleteCall ==
    CASE script = DeleteGitRepos -> "delete_repository"
      [] script = DeleteLibraryItems -> "delete_variable_group"
      [] OTHER -> "delete_pipeline"

\* the provider without the resource `id`
RECURSIVE WithoutId(_, _)
WithoutId(resources, id) ==
    IF resources = <<>> THEN <<>>
    ELSE (IF Head(resources).id = id THEN <<>> ELSE <<Head(resources)>>)
         \o WithoutId(Tail(resources), id)

CurItem == to_process[idx]

\* mutant: the count of successes grows on a failure too
DeleteCurrentCountsFailures ==
    /\ calls' = Append(calls, <<DeleteCall, <<>>, CurItem.id>>)
    /\ success_count' = success_count + 1
    /\ \E outcome \in AzOutcomes :
         IF AzSucceeded(outcome)
         THEN /\ Say(<<"Deleting Success", <<>>, CurItem.id>>)
              /\ devops' = WithoutId(devops, CurItem.id)
         ELSE /\ Say(<<"Deleting Failed", <<>>, CurItem.id>>)
              /\ UNCHANGED devops

\* the delete call for the current resource, its outcome line, the count
\* and time.sleep(0.5)
DeleteCurrent ==
    /\ calls' = Append(calls, <<DeleteCall, <<>>, CurItem.id>>)
    /\ \E outcome \in AzOutcomes :
         IF AzSucceeded(outcome)
         THEN /\ Say(<<"Deleting Success", <<>>, CurItem.id>>)
              /\ success_count' = success_count + 1
              /\ devops' = WithoutId(devops, CurItem.id)
         ELSE /\ Say(<<"Deleting Failed", <<>>, CurItem.id>>)
              /\ UNCHANGED <<success_count, devops>>

\* the counts the summary prints: 'Deleted s out of n' (not printed by
\* delete-pipelines --runs-only) and, in delete-pipelines, 'Canceled c
\* in-progress pipeline runs out of t total runs'
DeletedLine ==
    IF script = DeletePipelines /\ args.runs_only THEN <<>>
    ELSE <<success_count, Len(to_process)>>
CanceledLine ==
    IF script = DeletePipelines THEN <<run_success_count, total_runs>>
    ELSE <<>>

\* mutant: the total of the summary is the length of the listing, not of
\* the list to process
SummaryCountsListed ==
    /\ Say(<<"Summary",
             IF DeletedLine = <<>> THEN <<>>
             ELSE <<success_count, Len(listed)>>,
             CanceledLine>>)
    /\ Exit(0)

\* the summary after the loop; main() returns
Summary ==
    /\ Say(<<"Summary", DeletedLine, CanceledLine>>)
    /\ Exit(0)

\* delete-git-repos, delete-library-items: one iteration of the delete
\* loop, and the summary after it
DeleteItem ==
    /\ script \in {DeleteGitRepos, DeleteLibraryItems}
    /\ pc = "delete_loop"
    /\ IF idx > Len(to_process)
       THEN /\ Summary
            /\ NoSleep
            /\ UNCHANGED <<idx, success_count, devops, calls>>
       ELSE /\ DeleteCurrent
            /\ Sleep
            /\ idx' = idx + 1
            /\ UNCHANGED <<pc, exit_code>>
    /\ UNCHANGED <<script, args, confirmation, rgProvider, rgVars, opVars,
                   listed, to_process, excluded, runVars>>

\* what `az pipelines runs list` may give for one pipeline
RunLists(pipeline_id) ==
    {[i \in 1..Len(states) |->
         [id |-> RunIdOf(pipeline_id, i), state |-> states[i]]] :
        states \in SeqsUpTo(RunStates, MaxRuns)}

\* delete-pipelines: one iteration of `for pipeline in pipelines_to_process`
\* up to the run loop: list_pipeline_runs() gives [] when az fails and
\* raises when its output is no JSON; and the summary after the loop
ProcessPipeline ==
    /\ NoSleep
    /\ script = DeletePipelines
    /\ pc = "delete_loop"
    /\ IF idx > Len(to_process)
       THEN /\ Summary
            /\ UNCHANGED <<runs, run_idx, total_runs>>
       ELSE \/ \* json.loads raises: nothing catches it
               /\ Exit(1)
               /\ UNCHANGED <<runs, run_idx, total_runs, stdout>>
            \/ \E listing \in RunLists(CurItem.id) :
                 /\ runs' = listing
                 /\ run_idx' = 1
                 /\ total_runs' = total_runs + Len(listing)
                 /\ pc' = IF listing # <<>> THEN "run_loop"
                          ELSE "delete_pipeline"
                 /\ UNCHANGED <<exit_code, stdout>>
    /\ UNCHANGED <<script, args, confirmation, rgProvider, rgVars, opVars,
                   devops, doVars, run_success_count, run_calls, run_lines,
                   calls>>

\* mutant: every run that carries a state is cancelled
CancellableAnyState(run) == run.state # None

\* `run.get('state') in ['inProgress', 'notStarted', 'queued']`
Cancellable(run) ==
    run.state \in {Some("inProgress"), Some("notStarted"), Some("queued")}

CurRun == runs[run_idx]

\* a line about one run of the pipeline in progress
SayRun(line) == run_lines' = Append(run_lines, line)

\* delete-pipelines: one iteration of `for run in runs`: the cancel call,
\* its outcome line, the count and time.sleep(0.5), or the skip line
CancelRun ==
    /\ script = DeletePipelines
    /\ pc = "run_loop"
    /\ IF run_idx > Len(runs)
       THEN /\ pc' = "delete_pipeline"
            /\ NoSleep
            /\ UNCHANGED <<run_idx, run_success_count, run_calls, run_lines>>
       ELSE /\ run_idx' = run_idx + 1
            /\ UNCHANGED pc
            /\ IF Cancellable(CurRun)
               THEN /\ Sleep
                    /\ run_calls' = Append(run_calls,
                          <<"delete_pipeline_run", CurItem.id, CurRun.id>>)
                    /\ \E outcome \in AzOutcomes :
                         IF AzSucceeded(outcome)
                         THEN /\ SayRun(<<"Canceling Success", CurItem.id,
                                          CurRun.id>>)
                              /\ run_success_count' = run_success_count + 1
                         ELSE /\ SayRun(<<"Canceling Failed", CurItem.id,
                                          CurRun.id>>)
                              /\ UNCHANGED run_success_count
               ELSE /\ SayRun(<<"Skipping run", CurItem.id, CurRun.id>>)
                    /\ NoSleep
                    /\ UNCHANGED <<run_success_count, run_calls>>
    /\ UNCHANGED <<script, args, exit_code, confirmation, rgProvider, rgVars,
                   opVars, devops, doVars, runs, total_runs, logVars>>

\* mutant: --runs-only is parsed and never read
DeletePipelineIgnoresRunsOnly ==
    /\ Sleep
    /\ script = DeletePipelines
    /\ pc = "delete_pipeline"
    /\ DeleteCurrent
    /\ idx' = idx + 1
    /\ pc' = "delete_loop"
    /\ runs' = <<>>
    /\ run_idx' = 0
    /\ run_calls' = <<>>
    /\ run_lines' = <<>>
    /\ UNCHANGED <<script, args, exit_code, confirmation, rgProvider, rgVars,
                   opVars, listed, to_process, excluded, run_success_count,
                   total_runs>>

\* delete-pipelines: `if not args.runs_only:` and the delete of the pipeline
DeletePipeline ==
    /\ script = DeletePipelines
    /\ pc = "delete_pipeline"
    /\ IF ~args.runs_only
       THEN DeleteCurrent /\ Sleep
       ELSE NoSleep /\ UNCHANGED <<success_count, devops, logVars>>
    /\ idx' = idx + 1
    /\ pc' = "delete_loop"
    /\ runs' = <<>>
    /\ run_idx' = 0
    /\ run_calls' = <<>>
    /\ run_lines' = <<>>
    /\ UNCHANGED <<script, args, exit_code, confirmation, rgProvider, rgVars,
                   opVars, listed, to_process, excluded, run_success_count,
                   total_runs>>

--------------------------------------------------------------------------
(* The runs *)

\* the state of a process that has just been started
Fresh ==
    /\ pc = "start"
    /\ exit_code = None
    /\ confirmation = None
    /\ subscriptions = <<>>
    /\ sub_idx = 0
    /\ resource_groups = <<>>
    /\ grp_idx = 0
    /\ delete_operation = None
    /\ status = ""
    /\ status_log = <<>>
    /\ listed = <<>>
    /\ to_process = <<>>
    /\ excluded = <<>>
    /\ idx = 0
    /\ success_count = 0
    /\ runs = <<>>
    /\ run_idx = 0
    /\ run_success_count = 0
    /\ total_runs = 0
    /\ run_calls = <<>>
    /\ run_lines = <<>>
    /\ calls = <<>>
    /\ stdout = <<>>
    /\ slept = FALSE
    /\ unpaced = FALSE

\* a resource-group script starts on some subscriptions and groups, a
\* delete-* script on some project
Init ==
    /\ script \in Scripts
    /\ args \in ArgsOf(script)
    /\ IF script \in RGScripts
       THEN /\ azure_subs \in SubLists
            /\ azure \in [SubIds -> GroupLists]
            /\ \A s \in SubIds :
                  s \notin Range(azure_subs) => azure[s] = <<>>
            /\ devops = <<>>
       ELSE /\ azure_subs = <<>>
            /\ azure = [s \in SubIds |-> <<>>]
            /\ devops \in IF script = DeletePipelines
                          THEN Listings(PipelineNames, MaxPipelines)
                          ELSE Listings(ItemNames, MaxItems)
    /\ Fresh

\* the operator runs the same command line again, on the provider as the
\* last run left it
Restart ==
    /\ pc = "exited"
    /\ pc' = "start"
    /\ exit_code' = None
    /\ confirmation' = None
    /\ subscriptions' = <<>>
    /\ sub_idx' = 0
    /\ resource_groups' = <<>>
    /\ grp_idx' = 0
    /\ delete_operation' = None
    /\ status' = ""
    /\ status_log' = <<>>
    /\ listed' = <<>>
    /\ to_process' = <<>>
    /\ excluded' = <<>>
    /\ idx' = 0
    /\ success_count' = 0
    /\ runs' = <<>>
    /\ run_idx' = 0
    /\ run_success_count' = 0
    /\ total_runs' = 0
    /\ run_calls' = <<>>
    /\ run_lines' = <<>>
    /\ calls' = <<>>
    /\ stdout' = <<>>
    /\ slept' = FALSE
    /\ unpaced' = FALSE
    /\ UNCHANGED <<script, args, rgProvider, devops>>

Next ==
    \/ GlobalGate
    \/ GetSubscriptions
    \/ SubscriptionGate
    \/ ListResourceGroups
    \/ ForGroup
    \/ BeginDelete
    \/ OperationProgress
    \/ Wait
    \/ PollDone
    \/ PollStatus
    \/ EnsureDevopsExtension
    \/ ConfigureDevopsDefaults
    \/ Enumerate
    \/ ConfirmGate
    \/ DeleteItem
    \/ ProcessPipeline
    \/ CancelRun
    \/ DeletePipeline
    \/ Restart

Spec == Init /\ [][Next]_vars

--------------------------------------------------------------------------
(* Properties *)

\* the run stands at its global confirmation
AtGlobalGate ==
    \/ script \in RGScripts /\ pc = "start"
    \/ script \in DevOpsScripts /\ pc = "confirm"

\* the outcome lines about items, among the lines printed
ItemLineTags ==
    {"[DRY RUN] Would delete", "Skipping deletion", "Successfully deleted",
     "Error deleting", "Deleting Success", "Deleting Failed"}

\* no provider call was made and no item was processed
NothingDone ==
    /\ calls = <<>>
    /\ run_calls = <<>>
    /\ run_lines = <<>>
    /\ delete_operation = None
    /\ idx = 0
    /\ sub_idx = 0
    /\ \A i \in 1..Len(stdout) : stdout[i][1] \notin ItemLineTags

\* the phrase each script asks for at its global confirmation
RequiredPhrase ==
    CASE script = AzureCleanup -> PhraseAzure
      [] script = CleanupResources -> PhraseCleanup
      [] OTHER -> <<"y">>

\* the global confirmation is asked: not a dry run, no skip flag
GlobalGateAsked ==
    AtGlobalGate /\ ~args.dry_run /\ ~args.skip_confirmation /\ ~args.confirm

\* C1 as stated: at the global confirmation of a run that is not a dry run
\* and has no skip flag, every input other than the exact phrase ('y' in the
\* delete-* scripts) ends the run with no provider call and no item
\* processed.
C1_ExactPhraseOnly ==
    [][(GlobalGateAsked /\ confirmation' # Some(RequiredPhrase))
          => (pc' = "exited" /\ NothingDone')]_vars

\* the inputs that consent
Consents(input) ==
    IF script \in DevOpsScripts
    THEN input \in {<<"y">>, <<"Y">>}
    ELSE input = RequiredPhrase

\* C1, amended: at the global confirmation of a run that is not a dry run
\* and has no skip flag, every input other than the exact phrase (in the
\* delete-* scripts: other than 'y' and 'Y') ends the run with no provider
\* call and no item processed.
C1_GlobalGateFailClosed ==
    [][(GlobalGateAsked /\ confirmation' # None
            /\ ~Consents(Get(confirmation')))
          => (pc' = "exited" /\ exit_code' # None /\ NothingDone')]_vars

\* C1, witness: a run that was refused at its global confirmation and has
\* ended having done nothing
C1_RefusedAtGlobalGate ==
    /\ pc = "exited"
    /\ ~args.dry_run /\ ~args.skip_confirmation /\ ~args.confirm
    /\ confirmation # None
    /\ ~Consents(Get(confirmation))
    /\ NothingDone
    /\ script \in DevOpsScripts => to_process # <<>>
    /\ script \in RGScripts => stdout = <<>>

IsItemLine(line) == line[1] \in ItemLineTags

\* the lines a dry run owes for the groups `groups` of subscription `sub`
SimulatedLines(sub, groups) ==
    [i \in 1..Len(groups) |-> <<"[DRY RUN] Would delete", sub, groups[i]>>]

\* the lines a dry run owes for the first k subscriptions of `subs`, from
\* the groups the provider holds
RECURSIVE SimulatedLinesOfSubs(_, _)
SimulatedLinesOfSubs(subs, k) ==
    IF k = 0 THEN <<>>
    ELSE SimulatedLinesOfSubs(subs, k - 1)
         \o SimulatedLines(subs[k], azure[subs[k]])

\* the lines a dry run owes for the groups it has enumerated so far
SimulatedSoFar ==
    SimulatedLinesOfSubs(subscriptions, IF sub_idx = 0 THEN 0 ELSE sub_idx - 1)
    \o (IF pc = "group_loop"
        THEN SimulatedLines(CurSub, SubSeq(azure[CurSub], 1, grp_idx - 1))
        ELSE <<>>)

\* C2: in a dry run of azure-resource-cleanup or cleanup-resources, however
\* often it is repeated, no step changes the provider's subscriptions and
\* resource groups, begin_delete is never called, and the item lines printed
\* are exactly one '[DRY RUN] Would delete' line for each resource group
\* enumerated so far, in order.
C2_DryRunNeverMutates ==
    [][(script \in RGScripts /\ args.dry_run)
          => /\ azure' = azure
             /\ azure_subs' = azure_subs
             /\ calls' = <<>>
             /\ delete_operation' = None
             /\ SelectSeq(stdout', IsItemLine) = SimulatedSoFar']_vars

\* C2, witness: a dry run that went through two subscriptions with groups
\* and has printed its completion line
C2_DryRunCompleted ==
    /\ script \in RGScripts
    /\ args.dry_run
    /\ pc = "exited"
    /\ Len(subscriptions) = 2
    /\ Len(stdout) >= 4
    /\ stdout[Len(stdout)][1] = "Resource cleanup complete!"
    /\ \A i \in 1..(Len(stdout) - 1) : stdout[i][1] = "[DRY RUN] Would delete"
    /\ \A s \in SubIds : azure[s] # <<>>

\* the names given to --exclude
ExcludedNames ==
    IF args.exclude = None THEN {} ELSE Range(Get(args.exclude))

\* the listed resource `id` carries no name given to --exclude
NotExcludedId(id) ==
    \A j \in 1..Len(listed) :
        listed[j].id = id => listed[j].name \notin ExcludedNames

\* the pipeline a run belongs to
PipelineOfRun(run_id) == SubSeq(run_id, 1, Len(run_id) - 2)

\* C3: in delete-git-repos, delete-library-items and delete-pipelines, no
\* delete call is issued for a resource whose name is in the --exclude list;
\* in delete-pipelines, the runs of an excluded pipeline are neither listed
\* nor canceled.
C3_ExcludedNeverActedOn ==
    script \in DevOpsScripts =>
        /\ \A i \in 1..Len(calls) : NotExcludedId(calls[i][3])
        /\ \A i \in 1..Len(run_calls) : NotExcludedId(run_calls[i][2])
        /\ \A i \in 1..Len(runs) : NotExcludedId(PipelineOfRun(runs[i].id))
        /\ pc \in {"run_loop", "delete_pipeline"} =>
              to_process[idx].name \notin ExcludedNames

\* C3, witness: a run of delete-pipelines that set a pipeline aside as
\* excluded and has canceled a run of another pipeline
C3_ActedBesideExcluded ==
    /\ script = DeletePipelines
    /\ excluded # <<>>
    /\ pc = "delete_pipeline"
    /\ run_calls # <<>>
    /\ \E j \in 1..Len(listed) : listed[j].name \in ExcludedNames

\* the elements of `a` occur in `b` in the same order
RECURSIVE IsSubsequence(_, _)
IsSubsequence(a, b) ==
    IF a = <<>> THEN TRUE
    ELSE IF b = <<>> THEN FALSE
    ELSE IF Head(a) = Head(b) THEN IsSubsequence(Tail(a), Tail(b))
    ELSE IsSubsequence(a, Tail(b))

\* C4: the exclusion filter partitions the listing: the to-process and the
\* excluded lists are disjoint subsequences of the listing, in its order; a
\* resource is excluded exactly when its name equals an entry of --exclude;
\* and the two lengths add up to the length of the listing.
C4_FilterPartitions ==
    script \in DevOpsScripts =>
        /\ Len(to_process) + Len(excluded) = Len(listed)
        /\ IsSubsequence(to_process, listed)
        /\ IsSubsequence(excluded, listed)
        /\ Range(to_process) \cap Range(excluded) = {}
        /\ \A j \in 1..Len(listed) :
              /\ listed[j] \in Range(excluded)
                    <=> listed[j].name \in ExcludedNames
              /\ listed[j] \in Range(to_process)
                    <=> listed[j].name \notin ExcludedNames

\* C4, witness: a listing of three resources, two of them sharing the
\* excluded name, filtered into one to process and two excluded
C4_SharedNameExcluded ==
    /\ script \in DevOpsScripts
    /\ pc = "confirm"
    /\ Len(listed) = 3
    /\ Len(to_process) = 1
    /\ Len(excluded) = 2
    /\ excluded[1].name = excluded[2].name
    /\ excluded[1].id # excluded[2].id
    /\ listed[2] = to_process[1]

\* the step prints that the delete of an item failed (a return code other
\* than 0 or an exception of az, an HttpResponseError of the SDK), or finds
\* the long-running delete ended by an HttpResponseError
ItemFailureStep ==
    \/ /\ pc \in {"wait", "poll_done"}
       /\ Done(Get(delete_operation))
       /\ Get(delete_operation).exception = "HttpResponseError"
    \/ /\ Len(stdout') = Len(stdout) + 1
       /\ stdout'[Len(stdout')][1] \in {"Error deleting", "Deleting Failed"}
    \/ /\ Len(run_lines') = Len(run_lines) + 1
       /\ run_lines'[Len(run_lines')][1] = "Canceling Failed"

\* the step leaves the run at the item after the current one
GoesOnWithNextItem ==
    /\ pc' # "exited"
    /\ exit_code' = None
    /\ CASE script \in RGScripts ->
              /\ pc' = "group_loop"
              /\ grp_idx' = grp_idx + 1
              /\ sub_idx' = sub_idx
              /\ resource_groups' = resource_groups
         [] pc = "run_loop" ->
              /\ pc' = "run_loop"
              /\ run_idx' = run_idx + 1
              /\ runs' = runs
              /\ idx' = idx
         [] OTHER ->
              /\ pc' = "delete_loop"
              /\ idx' = idx + 1
              /\ to_process' = to_process

\* in delete-git-repos and delete-library-items, the delete calls made are
\* those of the items before the position of the loop, in order, and the
\* run ends after the last item only
EveryItemAttempted ==
    (script \in {DeleteGitRepos, DeleteLibraryItems} /\ idx >= 1) =>
        /\ calls = [i \in 1..(idx - 1) |-> <<DeleteCall, <<>>, to_process[i].id>>]
        /\ pc = "exited" => idx = Len(to_process) + 1

\* C5: when the delete of one item fails (return code other than 0,
\* HttpResponseError from begin_delete or from the wait), the run goes on
\* with the next item: the failure neither ends the run nor skips a later
\* item, and in the delete-* scripts every item to process gets its delete
\* call.
C5_FailureNeverStopsLaterItems ==
    [][(ItemFailureStep => GoesOnWithNextItem) /\ EveryItemAttempted']_vars

\* C5, witness: a resource group whose delete failed, and a later group of
\* the same run deleted after it
C5_DeletedAfterFailure ==
    /\ script \in RGScripts
    /\ Len(calls) >= 2
    /\ \E i \in 1..Len(stdout) : \E j \in (i + 1)..Len(stdout) :
          /\ stdout[i][1] = "Error deleting"
          /\ stdout[j][1] = "Successfully deleted"

\* the run is inside the processing of one item
InsideItem ==
    \/ script \in RGScripts
         /\ pc \in {"begin_delete", "wait", "poll_done", "poll_status"}
    \/ script \in DevOpsScripts
         /\ \/ pc = "delete_loop" /\ idx <= Len(to_process)
            \/ pc \in {"run_loop", "delete_pipeline"}

\* C6: no exception raised while one item is processed ends the run: a step
\* taken inside the processing of an item never leaves the process exited.
C6_ItemFaultNeverEndsRun ==
    [][InsideItem => pc' # "exited"]_vars

\* the step prints 'Successfully deleted resource group'
ReportsSuccessStep ==
    /\ Len(stdout') = Len(stdout) + 1
    /\ stdout'[Len(stdout')][1] = "Successfully deleted"

\* C7: a resource group is reported as 'Successfully deleted' only when its
\* long-running delete ended with the status succeeded and no error.
C7_SuccessOnlyWhenSucceeded ==
    [][ReportsSuccessStep =>
          /\ delete_operation # None
          /\ Get(delete_operation).status = "succeeded"
          /\ Get(delete_operation).exception = ""]_vars

\* the run is about to ask 'delete <group_name>' for the current group
AtItemPrompt ==
    /\ script \in RGScripts
    /\ ~args.dry_run
    /\ ItemGateRequired
    /\ pc = "group_loop"
    /\ grp_idx <= Len(resource_groups)

\* no group that was skipped in this run got a delete call
SkippedNeverDeleted ==
    \A i \in 1..Len(stdout) :
        stdout[i][1] = "Skipping deletion" =>
            \A k \in 1..Len(calls) :
                ~(calls[k][2] = stdout[i][2] /\ calls[k][3] = stdout[i][3])

\* C8: a wrong answer to the 'delete <group_name>' prompt costs that group
\* its delete call and nothing else: the group is reported as skipped, the
\* loop stands at the next group of the same subscription, the run goes on;
\* the right answer leads to the delete call of that very group.
C8_RefusalSkipsOneGroupOnly ==
    [][/\ AtItemPrompt =>
            /\ confirmation' # None
            /\ IF Get(confirmation') = DeletePrefix \o CurGroup
               THEN /\ pc' = "begin_delete"
                    /\ grp_idx' = grp_idx
                    /\ stdout' = stdout
               ELSE /\ pc' = "group_loop"
                    /\ grp_idx' = grp_idx + 1
                    /\ stdout' = Append(stdout,
                                   <<"Skipping deletion", CurSub, CurGroup>>)
            /\ calls' = calls
            /\ exit_code' = None
            /\ sub_idx' = sub_idx
            /\ resource_groups' = resource_groups
       /\ (script \in RGScripts /\ pc = "begin_delete") =>
            calls' = Append(calls, <<"begin_delete", CurSub, CurGroup>>)
       /\ SkippedNeverDeleted']_vars

\* C8, witness: a group skipped on a wrong answer, and a later group of the
\* same subscription deleted
C8_DeletedAfterRefusal ==
    \E i \in 1..Len(stdout) : \E j \in (i + 1)..Len(stdout) :
        /\ stdout[i][1] = "Skipping deletion"
        /\ stdout[j][1] = "Successfully deleted"
        /\ stdout[j][2] = stdout[i][2]
        /\ stdout[j][3] # stdout[i][3]

\* the step makes a begin_delete call
BeginDeleteStep ==
    /\ Len(calls') = Len(calls) + 1
    /\ calls'[Len(calls')][1] = "begin_delete"

\* C9: with the per-item confirmation on and no dry run, begin_delete is
\* called for a group only when the last input of the operator is exactly
\* 'delete ' followed by the name of that group.
C9_ConsentNamesTheGroup ==
    [][(script \in RGScripts /\ ~args.dry_run /\ ItemGateRequired
          /\ BeginDeleteStep)
         => confirmation = Some(DeletePrefix \o calls'[Len(calls')][3])]_vars

\* C9, witness: two groups of one run, each deleted on its own consent
C9_TwoGroupsTwoConsents ==
    /\ script \in RGScripts
    /\ ~args.dry_run
    /\ ItemGateRequired
    /\ Len(calls) = 2
    /\ calls[1][3] # calls[2][3]
    /\ confirmation = Some(DeletePrefix \o calls[2][3])

\* C10: under --force azure-resource-cleanup asks nothing for a resource
\* group: at each group of a confirmed subscription it reads no input and
\* goes to the delete call.
C10_ForceSkipsItemPrompt ==
    [][(script = AzureCleanup /\ args.force /\ ~args.dry_run
          /\ pc = "group_loop" /\ grp_idx <= Len(resource_groups))
         => (confirmation' = confirmation /\ pc' = "begin_delete")]_vars

\* the cancel calls made for the run `id`, and the lines that report it
\* as skipped, in the pipeline in progress
CancelCallsOf(id) == {k \in 1..Len(run_calls) : run_calls[k][3] = id}
SkipLinesOf(id) ==
    {k \in 1..Len(run_lines) :
        run_lines[k][1] = "Skipping run" /\ run_lines[k][3] = id}

\* the runs of the pipeline in progress that the loop has passed
RunsPassed ==
    IF pc = "delete_pipeline" THEN 1..Len(runs) ELSE 1..(run_idx - 1)

\* C11: in delete-pipelines, a run whose state is none of inProgress,
\* notStarted, queued (completed, canceled, failed, or no state) gets no
\* cancel call and is reported as skipped; a run in one of the three states
\* gets exactly one cancel call; a run the loop has not reached gets none.
C11_CancelOnlyNonTerminalRuns ==
    (script = DeletePipelines /\ pc \in {"run_loop", "delete_pipeline"}) =>
        /\ \A i \in RunsPassed :
              IF runs[i].state \in {<<"inProgress">>, <<"notStarted">>,
                                    <<"queued">>}
              THEN /\ Cardinality(CancelCallsOf(runs[i].id)) = 1
                   /\ SkipLinesOf(runs[i].id) = {}
              ELSE /\ CancelCallsOf(runs[i].id) = {}
                   /\ Cardinality(SkipLinesOf(runs[i].id)) = 1
        /\ \A i \in (1..Len(runs)) \ RunsPassed :
              CancelCallsOf(runs[i].id) = {} /\ SkipLinesOf(runs[i].id) = {}
        /\ Len(run_calls) + Cardinality({k \in 1..Len(run_lines) :
                               run_lines[k][1] = "Skipping run"})
             = Cardinality(RunsPassed)

\* C11, witness: a run that was cancelled in one pipeline, and in a later
\* pipeline a run already canceled that is skipped without a call
C11_SkippedAfterCancelled ==
    /\ script = DeletePipelines
    /\ pc = "delete_pipeline"
    /\ total_runs = 2
    /\ run_success_count = 1
    /\ Len(runs) = 1
    /\ runs[1].state = Some("canceled")
    /\ run_calls = <<>>
    /\ SkipLinesOf(runs[1].id) # {}

\* the run of a delete-* script has printed its summary and ended
Completed ==
    /\ script \in DevOpsScripts
    /\ pc = "exited"
    /\ stdout # <<>>
    /\ stdout[Len(stdout)][1] = "Summary"

SummaryLine == stdout[Len(stdout)]

\* the outcome lines (success or failure) printed for the item `id`
OutcomesOf(id) ==
    {k \in 1..Len(stdout) :
        /\ stdout[k][1] \in {"Deleting Success", "Deleting Failed"}
        /\ stdout[k][3] = id}

SuccessLines == {k \in 1..Len(stdout) : stdout[k][1] = "Deleting Success"}

\* every item to process has one outcome, and the summary reports
\* len(to-process) as its total and a success count within it
ItemsAccounted ==
    /\ \A i \in 1..Len(to_process) :
          Cardinality(OutcomesOf(to_process[i].id)) = 1
    /\ SummaryLine[2] # <<>>
    /\ SummaryLine[2][2] = Len(to_process)
    /\ SummaryLine[2][1] = Cardinality(SuccessLines)
    /\ 0 <= SummaryLine[2][1]
    /\ SummaryLine[2][1] <= SummaryLine[2][2]

\* the count of canceled runs grows by one, and only on the cancel call of
\* a run in one of the three states that are cancelled; the count of runs
\* grows by the runs listed; the first never exceeds the second
RunsAccounted ==
    /\ run_success_count' # run_success_count =>
          \/ run_success_count' = 0
          \/ /\ run_success_count' = run_success_count + 1
             /\ pc = "run_loop"
             /\ runs[run_idx].state \in {<<"inProgress">>, <<"notStarted">>,
                                         <<"queued">>}
             /\ Len(run_calls') = Len(run_calls) + 1
    /\ run_success_count' <= total_runs'
    /\ Completed' /\ script = DeletePipelines =>
          SummaryLine'[3] = <<run_success_count', total_runs'>>

\* a completed run accounts for its items, but for delete-pipelines
\* --runs-only, which reports nothing about the pipelines
CompletedAccounted ==
    Completed =>
        IF script = DeletePipelines /\ args.runs_only
        THEN /\ \A i \in 1..Len(to_process) :
                   OutcomesOf(to_process[i].id) = {}
             /\ SummaryLine[2] = <<>>
        ELSE ItemsAccounted

\* C12, as claimed: in every completed run of a delete-* script each item
\* to process has exactly one outcome, the reported total is
\* len(to-process), and 0 <= success count <= total.
C12_EveryItemOneOutcome ==
    Completed => ItemsAccounted

\* C12, amended: the same in every completed run but those of
\* delete-pipelines --runs-only, where no pipeline has an outcome and the
\* summary reports no pipeline total; in delete-pipelines the canceled-run
\* count never exceeds the number of runs cancelled, nor total_runs.
C12_SummaryAccounting ==
    [][CompletedAccounted' /\ RunsAccounted]_vars

\* C12, witness: a completed run with one item deleted and one that failed
C12_OneOfTwoDeleted ==
    /\ Completed
    /\ Len(to_process) = 2
    /\ SummaryLine[2] = <<1, 2>>
    /\ stdout[1][1] = "Deleting Failed"

\* the listing [A, B, C] with the ids the provider gives
ListedABC ==
    <<[id |-> IdOf(1), name |-> NA], [id |-> IdOf(2), name |-> NB],
      [id |-> IdOf(3), name |-> NC]>>

\* a completed run of delete-git-repos or delete-library-items on the
\* listing [A, B, C] with --exclude B and --confirm, in which the provider
\* deleted A and kept C
ScenarioABC ==
    /\ script \in {DeleteGitRepos, DeleteLibraryItems}
    /\ Completed
    /\ listed = ListedABC
    /\ args.exclude = Some(<<NB>>)
    /\ args.confirm
    /\ devops = <<ListedABC[2], ListedABC[3]>>

\* C13: with resources [A, B, C], exclusions {B}, the confirmation skipped,
\* and a provider that succeeds on A and fails on C, the run makes the
\* delete calls of A then C and no other, reports A as success and C as
\* failure, holds B as excluded, reads no input, and its summary says 1
\* deleted out of 2.
C13_ScenarioExcludeAndFail ==
    ScenarioABC =>
        /\ calls = <<<<DeleteCall, <<>>, IdOf(1)>>, <<DeleteCall, <<>>, IdOf(3)>>>>
        /\ stdout = <<<<"Deleting Success", <<>>, IdOf(1)>>,
                      <<"Deleting Failed", <<>>, IdOf(3)>>,
                      <<"Summary", <<1, 2>>, <<>>>>>>
        /\ excluded = <<ListedABC[2]>>
        /\ to_process = <<ListedABC[1], ListedABC[3]>>
        /\ confirmation = None
        /\ exit_code = Some(0)

\* C13, witness: the scenario has run to its end
C13_ScenarioCompleted ==
    ScenarioABC /\ Len(calls) = 2 /\ success_count = 1

\* cleanup-resources reports as deleted a group whose long-running delete
\* went queued, running, succeeded
SucceededReportStep ==
    /\ script = CleanupResources
    /\ ReportsSuccessStep
    /\ delete_operation # None
    /\ Get(delete_operation).status = "succeeded"
    /\ Get(delete_operation).exception = ""

\* C14: when a delete goes queued, running, succeeded, the statuses the
\* script has surfaced when it records the success are those three, in
\* that order; and a status is polled only of an operation that
\* begin_delete has returned.
C14_ObservesAllStatuses ==
    [][/\ SucceededReportStep =>
            status_log = <<"queued", "running", "succeeded">>
       /\ Len(status_log') > Len(status_log) =>
            /\ delete_operation # None
            /\ calls # <<>>
            /\ calls[Len(calls)][3] = Get(delete_operation).name]_vars

\* the step prints 'An error occurred' from main()'s `except Exception`
ErrorOccurredStep ==
    /\ Len(stdout') = Len(stdout) + 1
    /\ stdout'[Len(stdout')][1] = "An error occurred"

\* the step is a setup that fails: the credential or the listing of the
\* subscriptions or of the resource groups raises; the DevOps extension or
\* the defaults cannot be set; the listing of the project fails
SetupFailureStep ==
    \/ /\ script \in RGScripts
       /\ pc \in {"setup", "list_groups"}
       /\ ErrorOccurredStep
    \/ /\ script \in DevOpsScripts
       /\ pc \in {"start", "configure"}
       /\ pc' = "exited"
    \/ /\ script \in DevOpsScripts
       /\ pc = "list"
       /\ pc' = "exited"
       /\ devops # <<>>
       /\ listed' = <<>>

\* C15: a setup that fails makes the process exit with a status other
\* than 0, in every script.
C15_SetupFailureExitsNonZero ==
    [][SetupFailureStep =>
          (pc' = "exited" /\ exit_code' # None /\ exit_code' # Some(0))]_vars

\* the step is part of the deletion of one item: the delete or cancel call
\* and the wait for its result
ItemDeletionStep ==
    \/ /\ script \in RGScripts
       /\ pc \in {"begin_delete", "wait", "poll_done", "poll_status"}
    \/ /\ script \in {DeleteGitRepos, DeleteLibraryItems}
       /\ pc = "delete_loop"
       /\ idx <= Len(to_process)
    \/ /\ script = DeletePipelines
       /\ pc \in {"run_loop", "delete_pipeline"}

\* the step is the normal end of a run, after the last item
NormalEndStep ==
    /\ pc' = "exited"
    /\ \/ script \in RGScripts /\ pc = "sub_loop"
       \/ script \in DevOpsScripts /\ pc = "delete_loop"
            /\ idx > Len(to_process)

\* the operator refuses at the global confirmation
GlobalRefusalStep ==
    GlobalGateAsked /\ confirmation' # None /\ ~Consents(Get(confirmation'))

\* C16: a run that is past its setup exits with status 0 whatever the
\* deletions of its items did, and a run refused at the global confirmation
\* exits with status 0 and has done nothing.
C16_PastSetupExitsZero ==
    [][/\ (ItemDeletionStep /\ pc' = "exited") => exit_code' = Some(0)
       /\ NormalEndStep => exit_code' = Some(0)
       /\ GlobalRefusalStep =>
            (pc' = "exited" /\ exit_code' = Some(0) /\ NothingDone')]_vars

\* the step is an enumeration that fails: the listing of the subscriptions,
\* of the resource groups of a subscription, of the project, or of the
\* runs of a pipeline
EnumerationFailureStep ==
    \/ SetupFailureStep /\ pc \in {"setup", "list_groups", "list"}
    \/ /\ script = DeletePipelines
       /\ pc = "delete_loop"
       /\ idx <= Len(to_process)
       /\ pc' = "exited"

\* C17: when an enumeration fails the run is aborted, and it has made no
\* delete or cancel call.
C17_EnumerationFailsBeforeMutation ==
    [][EnumerationFailureStep =>
          /\ pc' = "exited"
          /\ calls = <<>>
          /\ calls' = <<>>
          /\ run_success_count = 0
          /\ total_runs = 0]_vars

\* every call made for the pipeline in progress is the cancel call of one
\* of its runs that is inProgress, notStarted or queued
OnlyCancelCalls ==
    \A k \in 1..Len(run_calls) :
        /\ run_calls[k][1] = "delete_pipeline_run"
        /\ \E i \in 1..Len(runs) :
              /\ runs[i].id = run_calls[k][3]
              /\ runs[i].state \in {<<"inProgress">>, <<"notStarted">>,
                                    <<"queued">>}

\* C18: in delete-pipelines with --runs-only, delete_pipeline is never
\* called and no pipeline leaves the project; the calls made are cancel
\* calls of runs that are not terminal.
C18_RunsOnlyKeepsPipelines ==
    [][(script = DeletePipelines /\ args.runs_only) =>
          /\ calls' = <<>>
          /\ devops' = devops
          /\ success_count' = 0
          /\ OnlyCancelCalls']_vars

\* C18, witness: a completed --runs-only run that cancelled a run of a
\* pipeline and left the pipelines in place
C18_RunsOnlyCancelled ==
    /\ script = DeletePipelines
    /\ args.runs_only
    /\ Completed
    /\ run_success_count >= 1
    /\ to_process # <<>>
    /\ devops = listed

\* C19: in a run with --dry-run no input is read from the operator, at the
\* global confirmation, at a subscription or at a resource group.
C19_DryRunReadsNoInput ==
    [][(script \in RGScripts /\ args.dry_run) =>
          (confirmation = None /\ confirmation' = None)]_vars

\* C19, witness: a dry run that went through two subscriptions and a
\* resource group and asked nothing
C19_DryRunAskedNothing ==
    /\ script \in RGScripts
    /\ args.dry_run
    /\ pc = "exited"
    /\ Len(subscriptions) = 2
    /\ sub_idx = 3
    /\ \E i \in 1..Len(stdout) : stdout[i][1] = "[DRY RUN] Would delete"
    /\ confirmation = None

\* no call occurs twice in a sequence of calls
NoCallTwice(cs) ==
    \A i \in 1..Len(cs) : \A j \in 1..Len(cs) : cs[i] = cs[j] => i = j

\* C20: in one run no item gets more than one delete or cancel call,
\* whether the call succeeds or fails.
C20_AtMostOneCallPerItem ==
    NoCallTwice(calls) /\ NoCallTwice(run_calls)

\* C20, witness: a run that ended after a delete call that failed and one
\* that succeeded, each made once
C20_FailedCallNotRepeated ==
    /\ pc = "exited"
    /\ Len(calls) = 2
    /\ \E i \in 1..Len(stdout) :
          stdout[i][1] \in {"Error deleting", "Deleting Failed"}
    /\ \E i \in 1..Len(stdout) :
          stdout[i][1] \in {"Successfully deleted", "Deleting Success"}

\* the step makes a delete or cancel call
MutatingCallStep ==
    \/ Len(calls') = Len(calls) + 1
    \/ Len(run_calls') = Len(run_calls) + 1

\* the step simulates the delete of an item or skips an item
SimulatedOrSkippedStep ==
    \/ /\ Len(stdout') = Len(stdout) + 1
       /\ stdout'[Len(stdout')][1] \in
             {"[DRY RUN] Would delete", "Skipping deletion"}
    \/ /\ Len(run_lines') = Len(run_lines) + 1
       /\ run_lines'[Len(run_lines')][1] = "Skipping run"

\* C21: in every script a delay comes between a delete or cancel call and
\* the next one of the run, and no delay comes with an item that is
\* simulated or skipped.
C21_DelayBetweenMutatingCalls ==
    [][/\ MutatingCallStep => ~unpaced
       /\ SimulatedOrSkippedStep => ~slept']_vars

\* the run has enumerated its resources and applied the exclusion filter
ResourcesListed ==
    IF script \in RGScripts
    THEN subscriptions # <<>>
    ELSE listed # <<>> /\ IsSubsequence(to_process, listed)

\* the positions of a run before the global confirmation is passed
BeforeGatePassed == {"start", "setup", "configure", "list", "confirm"}

\* C22: in every script the global confirmation is asked only once the
\* resources are enumerated and filtered, and a delete call is made only
\* past the gate.
C22_ListFilterGateDelete ==
    [][/\ GlobalGateAsked => ResourcesListed
       /\ MutatingCallStep =>
            /\ pc \notin BeforeGatePassed
            /\ script \in DevOpsScripts =>
                  \/ args.confirm
                  \/ confirmation # None /\ Consents(Get(confirmation))]_vars

\* a run that is no dry run and has the flag that skips the confirmations
SkipFlagRun ==
    /\ ~args.dry_run
    /\ \/ script = CleanupResources /\ args.skip_confirmation
       \/ script \in DevOpsScripts /\ args.confirm

\* the subscription of the last listing of resource groups
ListedSub ==
    subscriptions[IF sub_idx > Len(subscriptions) THEN Len(subscriptions)
                  ELSE sub_idx]

\* every item that was enumerated and not excluded has got its delete call
AllAttempted ==
    IF script \in RGScripts
    THEN \A i \in 1..Len(resource_groups) :
            \E k \in 1..Len(calls) :
                calls[k] = <<"begin_delete", ListedSub, resource_groups[i]>>
    ELSE \A i \in 1..Len(to_process) :
            \E k \in 1..Len(calls) :
                calls[k] = <<DeleteCall, <<>>, to_process[i].id>>

\* C23: in a run with the skip flag that is no dry run, no confirmation is
\* read at any level, and when the run has ended every item enumerated and
\* not excluded has got a delete attempt.
C23_SkipFlagDeletesAll ==
    SkipFlagRun =>
        /\ confirmation = None
        /\ pc = "exited" => AllAttempted

\* a run of cleanup-resources that has started a delete and has ended, has
\* ended on its completion message
EndsOnCompletionMessage ==
    (script = CleanupResources /\ pc = "exited" /\ calls # <<>>) =>
        stdout[Len(stdout)][1] = "Resource cleanup complete!"

\* C24: in cleanup-resources a run whose deletes all end (done, or a
\* transport error) goes on to its completion message; the polling loop is
\* left only when the operation is done, never on a timeout; and the next
\* delete is not started while an operation is in flight.
C24_PollingEndsInCompletion ==
    [][/\ EndsOnCompletionMessage'
       /\ (script = CleanupResources /\ pc \in {"poll_done", "poll_status"}
             /\ pc' \notin {"poll_done", "poll_status"})
            => Done(Get(delete_operation))
       /\ (script = CleanupResources /\ BeginDeleteStep)
            => delete_operation = None]_vars

\* the run is about to ask 'process <subscription_id>'
AtSubPrompt ==
    /\ script \in RGScripts
    /\ ~args.dry_run
    /\ ~args.skip_confirmation
    /\ pc = "sub_loop"
    /\ sub_idx <= Len(subscriptions)

\* no delete call was made in a subscription that was skipped in this run
SkippedSubsUntouched ==
    \A i \in 1..Len(stdout) :
        stdout[i][1] = "Skipping subscription" =>
            \A k \in 1..Len(calls) : calls[k][2] # stdout[i][2]

\* C25: a wrong answer to the 'process <subscription_id>' prompt leaves the
\* resource groups of that subscription unlisted and undeleted, and the
\* run goes on with the next subscription; the right answer leads to the
\* listing of that very subscription, and every delete call is made in the
\* subscription at hand.
C25_SubRefusalSkipsOneSubOnly ==
    [][/\ AtSubPrompt =>
            /\ confirmation' # None
            /\ IF Get(confirmation') = ProcessPrefix \o CurSub
               THEN /\ pc' = "list_groups"
                    /\ sub_idx' = sub_idx
                    /\ stdout' = stdout
               ELSE /\ pc' = "sub_loop"
                    /\ sub_idx' = sub_idx + 1
                    /\ stdout' = Append(stdout,
                                   <<"Skipping subscription", CurSub, <<>>>>)
            /\ calls' = calls
            /\ resource_groups' = resource_groups
            /\ subscriptions' = subscriptions
            /\ azure' = azure
            /\ exit_code' = None
       /\ (script \in RGScripts /\ BeginDeleteStep) =>
            calls'[Len(calls')][2] = CurSub
       /\ SkippedSubsUntouched']_vars

\* C25, witness: a subscription skipped on a wrong answer, and a resource
\* group of a later subscription deleted
C25_DeletedAfterSubRefusal ==
    \E i \in 1..Len(stdout) : \E j \in (i + 1)..Len(stdout) :
        /\ stdout[i][1] = "Skipping subscription"
        /\ stdout[j][1] = "Successfully deleted"
        /\ stdout[j][2] # stdout[i][2]

\* the delete calls made for the pipeline `id`
DeleteCallsOf(id) ==
    {k \in 1..Len(calls) : calls[k] = <<"delete_pipeline", <<>>, id>>}

\* the pipelines the loop has taken up: those before its position and, when
\* the run ended inside the loop, the one at its position
PipelinesTakenUp ==
    IF pc = "exited"
    THEN 1..(IF idx > Len(to_process) THEN Len(to_process) ELSE idx)
    ELSE 1..(idx - 1)

\* every pipeline taken up has got its delete call, once
TakenUpDeletedOnce ==
    (script = DeletePipelines /\ ~args.runs_only /\ idx >= 1) =>
        \A i \in PipelinesTakenUp :
            Cardinality(DeleteCallsOf(to_process[i].id)) = 1

\* C26: in delete-pipelines without --runs-only the cancel calls of the
\* runs of a pipeline come before the delete call of that pipeline, and
\* every pipeline taken up gets exactly one delete call, whether or not the
\* listing of its runs or a cancel call failed.
C26_RunsBeforePipeline ==
    [][/\ (script = DeletePipelines /\ ~args.runs_only
             /\ Len(run_calls') = Len(run_calls) + 1)
            => DeleteCallsOf(run_calls'[Len(run_calls')][2]) = {}
       /\ TakenUpDeletedOnce']_vars

\* the listing of the project holds nothing to process: it is empty, or
\* every resource of it bears an excluded name
NothingToProcess ==
    \A i \in 1..Len(devops) :
        \E e \in 1..Len(ExcludeList) : ExcludeList[e] = devops[i].name

\* C27: in the delete-* scripts, when the listing is empty or every listed
\* resource is excluded, the run ends at once, having read no input and
\* made no delete or cancel call; the confirmation and the loop are reached
\* only with something to process.
C27_NothingToDoEndsQuietly ==
    [][/\ (script \in DevOpsScripts /\ pc = "list" /\ NothingToProcess) =>
            /\ pc' = "exited"
            /\ exit_code' \in {Some(0), Some(1)}
            /\ confirmation' = None
            /\ calls' = <<>>
            /\ run_calls' = <<>>
            /\ devops' = devops
       /\ (script \in DevOpsScripts
             /\ pc' \in {"confirm", "delete_loop", "run_loop",
                         "delete_pipeline"})
            => to_process' # <<>>]_vars

\* C27, witness: a run ended with exit status 0 on a listing all of whose
\* resources are excluded
C27_AllExcludedEnded ==
    /\ script \in DevOpsScripts
    /\ pc = "exited"
    /\ exit_code = Some(0)
    /\ listed # <<>>
    /\ excluded = listed
    /\ to_process = <<>>
    /\ confirmation = None
    /\ calls = <<>>

====
